---- MODULE Spec2Model ----
(***************************************************************************)
(* NCP packet codec of ncplib: encode_packet / decode_packet of            *)
(* ncplib/packets.py and the older decoder of ncplib/decoder.py.           *)
(* Buffers are sequences of bytes (0..255); the decoders are modelled one  *)
(* loop iteration per step.                                                *)
(***************************************************************************)
EXTENDS Integers, Sequences, FiniteSets, TLC

\* ------------------------------------------------------------------ bounds

\* Most fields of a generated packet, most params of all its fields together.
MaxFields == 2
MaxParams == 2
\* The same for the packets whose encoding is tampered with on the wire.
MaxWireFields == 2
MaxWireParams == 2
\* A decode run is cut off once a field holds more than this many params
\* (only a loop that does not advance gets there).
MaxDecoded == 4

\* ------------------------------------------------------ byte-level helpers

RECURSIVE Pow256(_)
Pow256(k) == IF k = 0 THEN 1 ELSE 256 * Pow256(k - 1)

\* int.to_bytes(k, "little"): byte i of n; a negative n gives its two's complement.
ToBytes(n, k) == [i \in 1..k |-> (n \div Pow256(i - 1)) % 256]

\* int.from_bytes(b, "little", signed=False), for values below 2^31.
RECURSIVE _decode_uint(_)
_decode_uint(b) ==
    IF Len(b) = 0 THEN 0 ELSE b[1] + 256 * _decode_uint(Tail(b))

\* int.from_bytes(b, "little", signed=True), for at most 4 bytes.
_decode_int(b) ==
    IF Len(b) = 0 THEN 0
    ELSE LET top == b[Len(b)]
         IN  _decode_uint(SubSeq(b, 1, Len(b) - 1))
               + Pow256(Len(b) - 1) * (IF top >= 128 THEN top - 256 ELSE top)

\* The bytes without their most significant zero bytes.
RECURSIVE Significant(_)
Significant(b) ==
    IF Len(b) > 0 /\ b[Len(b)] = 0 THEN Significant(SubSeq(b, 1, Len(b) - 1)) ELSE b

\* Whether the unsigned value of the bytes is below 2^31 (the range of the model's
\* integers).
UIntFits(b) ==
    LET d == Significant(b) IN Len(d) < 4 \/ (Len(d) = 4 /\ d[4] < 128)

\* struct "I" / a 4-byte unsigned: exact below 2^31; a value v from 2^31 on is
\* carried as v - 2^32, which keeps distinct values distinct.
UnpackU32(b) == IF UIntFits(b) THEN _decode_uint(b) ELSE _decode_int(b)

\* Python slice b[lo:hi] with 0-based non-negative lo, hi (clipped to the buffer).
Slice(b, lo, hi) ==
    LET h == IF hi > Len(b) THEN Len(b) ELSE hi
    IN  IF lo >= h THEN << >> ELSE SubSeq(b, lo + 1, h)

\* Python slice b[-n:] for n > 0.
LastBytes(b, n) == IF Len(b) <= n THEN b ELSE SubSeq(b, Len(b) - n + 1, Len(b))

\* b"\x00" * n
Zeros(n) == [i \in 1..n |-> 0]

\* struct "4s": the bytes are cut to 4 and filled up with NUL bytes.
Pack4s(s) == [i \in 1..4 |-> IF i <= Len(s) THEN s[i] ELSE 0]

\* bytes.rstrip(b" \x00")
RECURSIVE RStrip(_)
RStrip(b) ==
    IF Len(b) > 0 /\ b[Len(b)] \in {0, 32}
    THEN RStrip(SubSeq(b, 1, Len(b) - 1))
    ELSE b

\* bytes.split(b"\x00", 1)[0]
RECURSIVE UntilNul(_)
UntilNul(b) ==
    IF Len(b) = 0 \/ b[1] = 0 THEN << >> ELSE << b[1] >> \o UntilNul(Tail(b))

RECURSIVE Join(_)
Join(chunks) ==
    IF Len(chunks) = 0 THEN << >> ELSE chunks[1] \o Join(Tail(chunks))

\* ------------------------------------------------------- program constants

PACKET_HEADER_SIZE == 32
FIELD_HEADER_SIZE == 12
PARAM_HEADER_SIZE == 8
PACKET_FOOTER_SIZE == 8

PACKET_HEADER == << 221, 204, 187, 170 >>
PACKET_VERSION == ToBytes(1, 4)
PACKET_FOOTER == << 170, 187, 204, 221 >>
PACKET_FOOTER_NO_CHECKSUM == Zeros(4) \o PACKET_FOOTER

\* Parameter type tags.
TYPE_I32 == 0
TYPE_U32 == 1
TYPE_STRING == 2

\* ------------------------------------------------------------- value codec

IntValue(n) == [kind |-> "int", n |-> n, s |-> << >>]
StrValue(s) == [kind |-> "str", n |-> 0, s |-> s]
RawValue(tag, b) == [kind |-> "raw", n |-> tag, s |-> b]
\* An integer outside the model's range, carried as the bytes it was read from.
WideValue(tag, b) == [kind |-> "wide", n |-> tag, s |-> b]

\* encode_value(value) -> (type id, bytes)
encode_value(v) ==
    IF v.kind = "int"
    THEN [type_id |-> TYPE_I32, bytes |-> ToBytes(v.n, 4)]
    ELSE IF v.kind = "str"
    THEN [type_id |-> TYPE_STRING, bytes |-> v.s \o << 0 >>]
    ELSE [type_id |-> v.n, bytes |-> v.s]

\* decode_value(type id, bytes)
decode_value(type_id, b) ==
    IF type_id = TYPE_I32
    THEN IF Len(b) <= 4 THEN IntValue(_decode_int(b)) ELSE WideValue(type_id, b)
    ELSE IF type_id = TYPE_U32
    THEN IF UIntFits(b) THEN IntValue(_decode_uint(b)) ELSE WideValue(type_id, b)
    ELSE IF type_id = TYPE_STRING THEN StrValue(UntilNul(b))
    ELSE RawValue(type_id, b)

\* datetime_to_unix(timestamp) -> (seconds, nanoseconds)
datetime_to_unix(t) == [time |-> t.sec, nanotime |-> t.usec * 1000]

\* unix_to_datetime(seconds, nanoseconds)
unix_to_datetime(time, nanotime) == [sec |-> time, usec |-> nanotime \div 1000]

\* ---------------------------------------------------------------- encoding

\* Faulty variant of EncodeParam: the size written leaves the padding out.
EncodeParamSizeRoundedDown(param) ==
    LET ev == encode_value(param.value)
        param_size == PARAM_HEADER_SIZE + Len(ev.bytes)
        param_padding_size == (-param_size) % 4
    IN  [chunks |-> << Pack4s(param.name) \o ToBytes(param_size \div 4, 3)
                         \o << ev.type_id >>,
                       ev.bytes,
                       Zeros(param_padding_size) >>,
         advance |-> param_size + param_padding_size]

\* The three chunks of one param and the bytes they add to the offset.
EncodeParam(param) ==
    LET ev == encode_value(param.value)
        param_size == PARAM_HEADER_SIZE + Len(ev.bytes)
        param_padding_size == (-param_size) % 4
    IN  [chunks |-> << Pack4s(param.name)
                         \o ToBytes((param_size + param_padding_size) \div 4, 3)
                         \o << ev.type_id >>,
                       ev.bytes,
                       Zeros(param_padding_size) >>,
         advance |-> param_size + param_padding_size]

\* The loop over the params of a field; st is [chunks, offset].
RECURSIVE EncodeParams(_, _)
EncodeParams(params, st) ==
    IF Len(params) = 0 THEN st
    ELSE LET e == EncodeParam(Head(params))
         IN  EncodeParams(Tail(params),
                          [chunks |-> st.chunks \o e.chunks,
                           offset |-> st.offset + e.advance])

\* The field size written back into the field header.
FieldSizeBytes(offset, field_offset) == ToBytes((offset - field_offset) \div 4, 3)

\* One iteration of the loop over the fields.
EncodeField(field, st) ==
    LET field_offset == st.offset
        at == Len(st.chunks) + 1
        field_header == Pack4s(field.name) \o Zeros(3) \o << 0 >> \o ToBytes(field.id, 4)
        st1 == [chunks |-> Append(st.chunks, field_header),
                offset |-> st.offset + FIELD_HEADER_SIZE]
        st2 == EncodeParams(field.params, st1)
        size == FieldSizeBytes(st2.offset, field_offset)
    IN  [st2 EXCEPT !.chunks[at] =
            SubSeq(field_header, 1, 4) \o size \o SubSeq(field_header, 8, 12)]

RECURSIVE EncodeFields(_, _)
EncodeFields(fields, st) ==
    IF Len(fields) = 0 THEN st
    ELSE EncodeFields(Tail(fields), EncodeField(Head(fields), st))

\* Faulty variant of PacketSizeBytes: the footer is not counted.
PacketSizeBytesWithoutFooter(offset) == ToBytes(offset \div 4, 4)

\* The packet size written back into the packet header.
PacketSizeBytes(offset) == ToBytes((offset + PACKET_FOOTER_SIZE) \div 4, 4)

\* encode_packet: the list of chunks that is joined into the buffer.
EncodeChunks(p) ==
    LET t == datetime_to_unix(p.time)
        packet_header == PACKET_HEADER \o Pack4s(p.type) \o ToBytes(0, 4)
                           \o ToBytes(p.id, 4) \o PACKET_VERSION
                           \o ToBytes(t.time, 4) \o ToBytes(t.nanotime, 4) \o p.info
        st == EncodeFields(p.fields,
                           [chunks |-> << packet_header >>, offset |-> PACKET_HEADER_SIZE])
        chunks == Append(st.chunks, PACKET_FOOTER_NO_CHECKSUM)
    IN  [chunks EXCEPT ![1] =
            SubSeq(packet_header, 1, 8) \o PacketSizeBytes(st.offset)
              \o SubSeq(packet_header, 13, 32)]

encode_packet(p) == Join(EncodeChunks(p))

\* peek_packet_size(data) of the older decoder.
_decode_size(data) == _decode_uint(data) * 4
peek_packet_size(data) == _decode_size(Slice(data, 8, 12))

\* ------------------------------------------------------------------- state

VARIABLES
    packet,         \* the packet handed to encode_packet
    impl,           \* which decode_packet reads the buffer: "packets" or "decoder"
    raw,            \* decode_packet(buf, raw=...) of the older decoder
    chunks,         \* encode_packet: the chunks that were joined
    buf,            \* the bytes handed to decode_packet
    tamper,         \* what was done to the encoded bytes on the wire
    pc,             \* position of the run
    header,         \* the decoded packet header
    body,           \* the bytes the field loop reads
    field_limit,    \* field_limit / field_data_size
    offset,         \* offset / field_read_position
    cur,            \* header of the field being decoded
    param_limit,    \* param_limit / param_data_size
    param_read_position,
    params,         \* params decoded so far in the current field
    fields,         \* fields decoded so far
    warnings,       \* number of DecodeWarnings issued
    result,         \* the value decode_packet returned
    ref             \* what the same decoder returned for the untampered bytes

vars == << packet, impl, raw, chunks, buf, tamper, pc, header, body, field_limit,
           offset, cur, param_limit, param_read_position, params, fields,
           warnings, result, ref >>

decoder_vars == << header, body, field_limit, offset, cur, param_limit,
                   param_read_position, params, fields, warnings, result >>

NoTamper == [kind |-> "none", field |-> 0, param |-> 0, words |-> 0]
NoHeader == [type |-> << >>, id |-> 0, time |-> 0, info |-> << >>]
NoField == [name |-> << >>, id |-> 0, size |-> 0, data |-> << >>]
NoResult == [type |-> << >>, id |-> 0, time |-> 0, info |-> << >>, fields |-> << >>]

Terminal == {"done", "DecodeError", "struct.error"}

\* ------------------------------------------------------------------ inputs

\* Identifier texts: the prefixes of "AB DE", from the empty one to one of 5 bytes.
IdText == << 65, 66, 32, 68, 69 >>
Names == { SubSeq(IdText, 1, k) : k \in 0..Len(IdText) }
FieldNames == { SubSeq(IdText, 1, 1), SubSeq(IdText, 1, 3) }
ParamNames == { SubSeq(IdText, 1, 2), SubSeq(IdText, 1, 4) }
Values == { IntValue(-2), StrValue(<< 104, 105 >>) }

\* (name, value) pairs a field is filled from.
ParamPool == [name : ParamNames, value : Values]
WireParamPool == { x \in ParamPool : x.name = SubSeq(IdText, 1, 2) \/ x.value.kind = "str" }

\* Sequences of at most maxFields fields that hold at most maxParams params together.
RECURSIVE FieldsOf(_, _, _, _)
FieldsOf(names, pool, maxFields, maxParams) ==
    IF maxFields = 0 THEN { << >> }
    ELSE { << >> } \cup
         UNION { { << f >> \o rest :
                     f \in [name : names, id : {7}, params : [1..k -> pool]],
                     rest \in FieldsOf(names, pool, maxFields - 1, maxParams - k) } :
                 k \in 0..maxParams }

InitRun ==
    /\ chunks = << >>
    /\ buf = << >>
    /\ tamper = NoTamper
    /\ pc = "encode"
    /\ header = NoHeader
    /\ body = << >>
    /\ field_limit = 0
    /\ offset = 0
    /\ cur = NoField
    /\ param_limit = 0
    /\ param_read_position = 0
    /\ params = << >>
    /\ fields = << >>
    /\ warnings = 0
    /\ result = NoResult
    /\ ref = NoResult

Init ==
    /\ packet \in [type : Names, id : {258}, time : {[sec |-> 1, usec |-> 999999]},
                   info : {<< 1, 2, 3, 4 >>},
                   fields : FieldsOf(FieldNames, ParamPool, MaxFields, MaxParams)]
    /\ impl = "packets"
    /\ raw = FALSE
    /\ InitRun

\* -------------------------------------------------------------- operations

\* encode_packet(packet_type, packet_id, timestamp, info, fields)
EncodePacket ==
    /\ pc = "encode"
    /\ chunks' = EncodeChunks(packet)
    /\ buf' = encode_packet(packet)
    /\ pc' = "wire"
    /\ UNCHANGED << packet, impl, raw, tamper, ref >>
    /\ UNCHANGED decoder_vars

\* decode_packet_cps: the unpacked header and the number of bytes still to read.
decode_packet_cps(header_buf) ==
    LET packet_header == Slice(header_buf, 0, 4)
        packet_size == _decode_uint(Slice(header_buf, 8, 12)) * 4
    IN  [ok |-> packet_header = PACKET_HEADER,
         type |-> Slice(header_buf, 4, 8),
         id |-> UnpackU32(Slice(header_buf, 12, 16)),
         time |-> UnpackU32(Slice(header_buf, 20, 24)),
         nanotime |-> UnpackU32(Slice(header_buf, 24, 28)),
         info |-> Slice(header_buf, 28, 32),
         size_remaining |-> packet_size - PACKET_HEADER_SIZE]

\* The footer check of decode_packet_body.
FooterOk(b) == LastBytes(b, 4) = PACKET_FOOTER

\* decode_packet(buf) of packets.py, up to the start of the field loop.
DecodePacket ==
    /\ pc = "wire"
    /\ impl = "packets"
    /\ LET header_buf == Slice(buf, 0, PACKET_HEADER_SIZE)
           h == decode_packet_cps(header_buf)
           b == Slice(buf, PACKET_HEADER_SIZE, Len(buf))
       IN  /\ pc' = IF Len(header_buf) # PACKET_HEADER_SIZE THEN "struct.error"
                    ELSE IF ~h.ok \/ ~FooterOk(b) THEN "DecodeError"
                    ELSE "fields"
           /\ header' = [type |-> h.type, id |-> h.id,
                         time |-> unix_to_datetime(h.time, h.nanotime), info |-> h.info]
           /\ body' = b
           /\ field_limit' = h.size_remaining - PACKET_FOOTER_SIZE
    /\ offset' = 0
    /\ fields' = << >>
    /\ params' = << >>
    /\ warnings' = 0
    /\ result' = NoResult
    /\ UNCHANGED << packet, impl, raw, chunks, buf, tamper, ref,
                    cur, param_limit, param_read_position >>

\* Identifier as returned: name.rstrip(b" \x00").decode("latin1")
DecodeName(b) == RStrip(b)

\* One pass of "while offset < field_limit": the field header, or the loop's exit.
FieldIter ==
    /\ pc = "fields"
    /\ impl = "packets"
    /\ IF offset < field_limit
       THEN IF Len(body) - offset < FIELD_HEADER_SIZE
            THEN /\ pc' = "struct.error"
                 /\ UNCHANGED << cur, param_limit, offset, params, result >>
            ELSE /\ cur' = [name |-> Slice(body, offset, offset + 4),
                            id |-> UnpackU32(Slice(body, offset + 8, offset + 12)),
                            size |-> _decode_uint(Slice(body, offset + 4, offset + 7)),
                            data |-> << >>]
                 /\ param_limit' = offset + _decode_uint(Slice(body, offset + 4, offset + 7)) * 4
                 /\ offset' = offset + FIELD_HEADER_SIZE
                 /\ params' = << >>
                 /\ pc' = "params"
                 /\ UNCHANGED result
       ELSE /\ IF offset > field_limit
               THEN pc' = "DecodeError" /\ UNCHANGED result
               ELSE /\ pc' = "done"
                    /\ result' = [type |-> DecodeName(header.type), id |-> header.id,
                                  time |-> header.time, info |-> header.info,
                                  fields |-> fields]
            /\ UNCHANGED << cur, param_limit, offset, params >>
    /\ UNCHANGED << packet, impl, raw, chunks, buf, tamper, ref, header, body,
                    field_limit, param_read_position, fields, warnings >>

\* Faulty variant of IsEmbeddedFooter: only the first 4 bytes are compared.
IsEmbeddedFooterShort(b, at) == Slice(b, at, at + 4) = PACKET_FOOTER_NO_CHECKSUM

\* The test for the embedded packet footer of Axis nodes.
IsEmbeddedFooter(b, at) == Slice(b, at, at + 8) = PACKET_FOOTER_NO_CHECKSUM

\* Faulty variant of ParamValueBytes: the value is read from the start of the param.
ParamValueBytesFromHeader(b, at, param_size) == Slice(b, at, at + param_size)

\* The bytes of a param's value.
ParamValueBytes(b, at, param_size) == Slice(b, at + PARAM_HEADER_SIZE, at + param_size)

\* One pass of "while offset < param_limit", or the loop's exit that stores the field.
ParamIter ==
    /\ pc = "params"
    /\ impl = "packets"
    /\ Len(params) <= MaxDecoded
    /\ IF offset < param_limit
       THEN IF IsEmbeddedFooter(body, offset)
            THEN /\ warnings' = warnings + 1
                 /\ offset' = offset + 8
                 /\ UNCHANGED << pc, params, fields >>
            ELSE IF Len(body) - offset < PARAM_HEADER_SIZE
            THEN /\ pc' = "struct.error"
                 /\ UNCHANGED << offset, params, fields, warnings >>
            ELSE LET param_name == Slice(body, offset, offset + 4)
                     param_size == _decode_uint(Slice(body, offset + 4, offset + 7)) * 4
                     param_type_id == body[offset + 8]
                     param_value_encoded == ParamValueBytes(body, offset, param_size)
                 IN  /\ params' = Append(params,
                                         [name |-> DecodeName(param_name),
                                          value |-> decode_value(param_type_id,
                                                                 param_value_encoded)])
                     /\ offset' = offset + param_size
                     /\ pc' = IF offset + param_size > param_limit
                              THEN "DecodeError" ELSE "params"
                     /\ UNCHANGED << fields, warnings >>
       ELSE /\ fields' = Append(fields, [name |-> DecodeName(cur.name), id |-> cur.id,
                                         params |-> params])
            /\ pc' = "fields"
            /\ UNCHANGED << offset, params, warnings >>
    /\ UNCHANGED << packet, impl, raw, chunks, buf, tamper, ref, header, body,
                    field_limit, cur, param_limit, param_read_position, result >>

\* ------------------------------------------------ the older decoder (decoder.py)

PACKET_HEADER_HEADER == PACKET_HEADER
PACKET_FOOTER_HEADER == PACKET_FOOTER
PACKET_FIELD_HEADER_SIZE == FIELD_HEADER_SIZE
PACKET_PARAM_HEADER_SIZE == PARAM_HEADER_SIZE

\* _decode_timestamp(data): the nanoseconds are divided by 1000 as a float and the
\* timedelta rounds them to whole microseconds, halves to the even neighbour. The
\* nanoseconds n = top * 2^24 + low are divided in two parts (2^24 = 16777 * 1000 + 216).
_decode_timestamp(data) ==
    LET seconds == UnpackU32(Slice(data, 0, 4))
        low == _decode_uint(Slice(data, 4, 7))
        top == _decode_uint(Slice(data, 7, 8))
        q == top * 16777 + (top * 216 + low) \div 1000
        r == (top * 216 + low) % 1000
        micro == IF r > 500 \/ (r = 500 /\ q % 2 = 1) THEN q + 1 ELSE q
    IN  [sec |-> seconds + micro \div 1000000, usec |-> micro % 1000000]

\* _decode_param_value_raw
_decode_param_value_raw(param_value_data, param_type_id) ==
    RawValue(param_type_id, param_value_data)

\* _decode_param_value: the decoder of the type, and the raw value for an unknown type.
\* The raw and array types (0x80 to 0x86) keep the bytes they are built from.
_decode_param_value(param_value_data, param_type_id) ==
    IF param_type_id = TYPE_I32
    THEN IF Len(param_value_data) <= 4 THEN IntValue(_decode_int(param_value_data))
         ELSE WideValue(param_type_id, param_value_data)
    ELSE IF param_type_id = TYPE_U32
    THEN IF UIntFits(param_value_data) THEN IntValue(_decode_uint(param_value_data))
         ELSE WideValue(param_type_id, param_value_data)
    ELSE IF param_type_id = TYPE_STRING THEN StrValue(param_value_data)
    ELSE IF param_type_id \in 128..134
    THEN [kind |-> "bytes", n |-> param_type_id, s |-> param_value_data]
    ELSE _decode_param_value_raw(param_value_data, param_type_id)

\* _decode_param(param_data, raw) -> (name, size, value)
_decode_param(param_data, r) ==
    LET param_type_id == _decode_uint(Slice(param_data, 7, 8))
        param_value_data ==
            UntilNul(Slice(param_data, PACKET_PARAM_HEADER_SIZE, Len(param_data)))
    IN  [name |-> Slice(param_data, 0, 4),
         size |-> _decode_size(Slice(param_data, 4, 7)),
         value |-> IF r THEN _decode_param_value_raw(param_value_data, param_type_id)
                   ELSE _decode_param_value(param_value_data, param_type_id)]

\* OrderedDict.__setitem__ on a sequence of [name, value] entries: a known key keeps
\* its place and takes the new value, a new key goes to the end.
OrderedDictSet(d, key, value) ==
    IF \E i \in 1..Len(d) : d[i].name = key
    THEN [i \in 1..Len(d) |-> IF d[i].name = key THEN [d[i] EXCEPT !.value = value]
                              ELSE d[i]]
    ELSE Append(d, [name |-> key, value |-> value])

\* decode_packet(buf, raw=...) of decoder.py, up to the start of the field loop.
OldDecodePacket ==
    /\ pc = "wire"
    /\ impl = "decoder"
    /\ LET packet_size == peek_packet_size(buf)
           packet_data == Slice(buf, 0, packet_size)
           field_data == Slice(packet_data, PACKET_HEADER_SIZE,
                               packet_size - PACKET_FOOTER_SIZE)
       IN  /\ pc' = IF Len(buf) < PACKET_HEADER_SIZE + PACKET_FOOTER_SIZE
                    THEN "DecodeError"
                    ELSE IF Slice(packet_data, 0, 4) # PACKET_HEADER_HEADER
                    THEN "DecodeError"
                    ELSE IF LastBytes(packet_data, 4) # PACKET_FOOTER_HEADER
                    THEN "DecodeError"
                    ELSE "fields"
           /\ header' = [type |-> Slice(packet_data, 4, 8),
                         id |-> UnpackU32(Slice(packet_data, 12, 16)),
                         time |-> _decode_timestamp(Slice(packet_data, 20, 28)),
                         info |-> Slice(packet_data, 28, 32)]
           /\ body' = field_data
           /\ field_limit' = Len(field_data)
    /\ offset' = 0
    /\ fields' = << >>
    /\ params' = << >>
    /\ warnings' = 0
    /\ result' = NoResult
    /\ UNCHANGED << packet, impl, raw, chunks, buf, tamper, ref,
                    cur, param_limit, param_read_position >>

\* One pass of "while field_read_position < field_data_size": the head of
\* _decode_field, or the loop's exit.
OldFieldIter ==
    /\ pc = "fields"
    /\ impl = "decoder"
    /\ IF offset < field_limit
       THEN LET field_data == Slice(body, offset, Len(body))
                field_size == _decode_size(Slice(field_data, 4, 7))
                param_data == Slice(field_data, PACKET_FIELD_HEADER_SIZE, field_size)
            IN  /\ cur' = [name |-> Slice(field_data, 0, 4), id |-> 0,
                           size |-> field_size, data |-> param_data]
                /\ param_limit' = Len(param_data)
                /\ param_read_position' = 0
                /\ params' = << >>
                /\ pc' = "params"
                /\ UNCHANGED result
       ELSE /\ IF offset # field_limit
               THEN pc' = "DecodeError" /\ UNCHANGED result
               ELSE /\ pc' = "done"
                    /\ result' = [type |-> header.type, id |-> header.id,
                                  time |-> header.time, info |-> header.info,
                                  fields |-> fields]
            /\ UNCHANGED << cur, param_limit, param_read_position, params >>
    /\ UNCHANGED << packet, impl, raw, chunks, buf, tamper, ref, header, body,
                    field_limit, offset, fields, warnings >>

\* One pass of "while param_read_position < param_data_size", or the end of
\* _decode_field and the store of the field.
OldParamIter ==
    /\ pc = "params"
    /\ impl = "decoder"
    /\ IF param_read_position < param_limit
       THEN LET p == _decode_param(Slice(cur.data, param_read_position, Len(cur.data)),
                                   raw)
            IN  /\ params' = OrderedDictSet(params, p.name, p.value)
                /\ param_read_position' = param_read_position + p.size
                /\ UNCHANGED << pc, fields, offset >>
       ELSE IF param_read_position # param_limit
       THEN /\ pc' = "DecodeError"
            /\ UNCHANGED << params, param_read_position, fields, offset >>
       ELSE /\ fields' = OrderedDictSet(fields, cur.name, params)
            /\ offset' = offset + cur.size
            /\ pc' = "fields"
            /\ UNCHANGED << params, param_read_position >>
    /\ UNCHANGED << packet, impl, raw, chunks, buf, tamper, ref, header, body,
                    field_limit, cur, param_limit, warnings, result >>

\* ---------------------------------------------------------------- the wire

\* Index, in the list of chunks, of the header of field i and of param j of field i.
RECURSIVE FieldChunk(_, _)
FieldChunk(p, i) ==
    IF i = 1 THEN 2
    ELSE FieldChunk(p, i - 1) + 1 + 3 * Len(p.fields[i - 1].params)
ParamChunk(p, i, j) == FieldChunk(p, i) + 1 + 3 * (j - 1)

\* Number of bytes in chunks from..to, and the 0-based position of chunk k when joined.
RECURSIVE ChunkBytes(_, _, _)
ChunkBytes(chs, from, to) ==
    IF from > to THEN 0 ELSE Len(chs[from]) + ChunkBytes(chs, from + 1, to)
ChunkPos(chs, k) == ChunkBytes(chs, 1, k - 1)

\* The buffer with the bytes at 0-based position at replaced.
SetBytes(b, at, bytes) ==
    [i \in 1..Len(b) |-> IF i > at /\ i <= at + Len(bytes) THEN bytes[i - at] ELSE b[i]]

\* The 3-byte size at 0-based position at, in words.
SizeAt(b, at) == _decode_uint(Slice(b, at, at + 3))

RECURSIVE Repeat(_, _)
Repeat(bytes, n) == IF n = 0 THEN << >> ELSE bytes \o Repeat(bytes, n - 1)

\* What can happen to an encoded packet on its way.
Tampers(p) ==
    [kind : {"header", "footer", "trailer", "footer+trailer"},
     field : {0}, param : {0}, words : {0}]
    \cup UNION { [kind : {"quirk"}, field : {i},
                  param : 1..(Len(p.fields[i].params) - 1), words : 1..2] :
                 i \in 1..Len(p.fields) }
    \cup UNION { [kind : {"param_size"}, field : {i},
                  param : 1..Len(p.fields[i].params), words : {0, 1}] :
                 i \in 1..Len(p.fields) }
    \cup [kind : {"field_size"}, field : 1..Len(p.fields), param : {0},
          words : {0, 1, 3}]

\* The bytes after tampering t. For the sizes, words = 0 writes a size of 0 and any
\* other number of words is added to the size that was encoded.
Tampered(b, chs, p, t) ==
    IF t.kind = "header" THEN SetBytes(b, 0, << 0 >>)
    ELSE IF t.kind = "footer" THEN SetBytes(b, Len(b) - 1, << 0 >>)
    ELSE IF t.kind = "trailer" THEN b \o PACKET_FOOTER
    ELSE IF t.kind = "footer+trailer"
    THEN SetBytes(b, Len(b) - 1, << 0 >>) \o PACKET_FOOTER
    ELSE IF t.kind = "quirk"
    THEN LET at == ChunkPos(chs, ParamChunk(p, t.field, t.param + 1))
             fat == ChunkPos(chs, FieldChunk(p, t.field)) + 4
             added == 2 * t.words
             grown == Slice(b, 0, at)
                        \o Repeat(PACKET_FOOTER_NO_CHECKSUM, t.words)
                        \o Slice(b, at, Len(b))
             sized == SetBytes(grown, fat, ToBytes(SizeAt(b, fat) + added, 3))
         IN  SetBytes(sized, 8, ToBytes(_decode_uint(Slice(b, 8, 12)) + added, 4))
    ELSE IF t.kind = "param_size"
    THEN LET at == ChunkPos(chs, ParamChunk(p, t.field, t.param)) + 4
         IN  SetBytes(b, at, ToBytes(IF t.words = 0 THEN 0 ELSE SizeAt(b, at) + t.words, 3))
    ELSE LET at == ChunkPos(chs, FieldChunk(p, t.field)) + 4
         IN  SetBytes(b, at, ToBytes(IF t.words = 0 THEN 0 ELSE SizeAt(b, at) + t.words, 3))

\* The bytes of a decoded packet are changed on the wire and decoded once more.
Tamper ==
    /\ pc \in Terminal
    /\ tamper = NoTamper
    /\ \E t \in Tampers(packet) :
          /\ tamper' = t
          /\ buf' = Tampered(buf, chunks, packet, t)
    /\ ref' = result
    /\ pc' = "wire"
    /\ header' = NoHeader
    /\ body' = << >>
    /\ field_limit' = 0
    /\ offset' = 0
    /\ cur' = NoField
    /\ param_limit' = 0
    /\ param_read_position' = 0
    /\ params' = << >>
    /\ fields' = << >>
    /\ warnings' = 0
    /\ result' = NoResult
    /\ UNCHANGED << packet, impl, raw, chunks >>

\* ---------------------------------------------------------- specifications

Next == EncodePacket \/ DecodePacket \/ FieldIter \/ ParamIter

Spec == Init /\ [][Next]_vars

\* The packets that are tampered with: one packet type, one field name.
InitWire ==
    /\ packet \in [type : {SubSeq(IdText, 1, 4)}, id : {258},
                   time : {[sec |-> 1, usec |-> 999999]}, info : {<< 1, 2, 3, 4 >>},
                   fields : FieldsOf({SubSeq(IdText, 1, 1)}, WireParamPool,
                                     MaxWireFields, MaxWireParams)]
    /\ impl \in {"packets", "decoder"}
    /\ raw \in IF impl = "decoder" THEN BOOLEAN ELSE {FALSE}
    /\ InitRun

NextWire ==
    \/ EncodePacket \/ DecodePacket \/ FieldIter \/ ParamIter
    \/ OldDecodePacket \/ OldFieldIter \/ OldParamIter
    \/ Tamper

SpecWire == InitWire /\ [][NextWire]_vars

\* ------------------------------------------------------------------ claims

\* The identifiers of a packet: its type, its field names and its param names.
Identifiers(p) ==
    { p.type } \cup { p.fields[i].name : i \in 1..Len(p.fields) }
    \cup UNION { { p.fields[i].params[j].name : j \in 1..Len(p.fields[i].params) } :
                 i \in 1..Len(p.fields) }

\* The run has decoded, with packets.py, the bytes encode_packet produced.
CleanDone == pc = "done" /\ tamper = NoTamper /\ impl = "packets"

PacketSizeField ==
    (pc # "encode" /\ tamper = NoTamper) =>
        /\ _decode_uint(Slice(buf, 8, 12)) * 4 = Len(buf)
        /\ peek_packet_size(Slice(buf, 0, 12)) = Len(buf)
        /\ Len(buf) % 4 = 0
        /\ Len(buf) >= 40

PacketSizeWitness ==
    /\ pc = "wire"
    /\ tamper = NoTamper
    /\ Len(packet.fields) = 2
    /\ Len(packet.fields[2].params) = 2
    /\ peek_packet_size(Slice(buf, 0, 12)) = Len(buf)
    /\ Len(buf) > 40

\* C3: in the encoded buffer each field's 3-byte size times 4 is the number of bytes
\* of the field (its 12-byte header and its padded params), and each param's 3-byte
\* size times 4 is the number of bytes of the param (its 8-byte header, its encoded
\* value and the NUL padding to the next multiple of 4).
ElementSizes ==
    (pc # "encode" /\ tamper = NoTamper) =>
        \A i \in 1..Len(packet.fields) :
            LET f == FieldChunk(packet, i)
                n == Len(packet.fields[i].params)
            IN  /\ SizeAt(buf, ChunkPos(chunks, f) + 4) * 4
                     = ChunkBytes(chunks, f, f + 3 * n)
                /\ Len(chunks[f]) = 12
                /\ \A j \in 1..n :
                     LET c == ParamChunk(packet, i, j)
                         value == encode_value(packet.fields[i].params[j].value).bytes
                     IN  /\ SizeAt(buf, ChunkPos(chunks, c) + 4) * 4
                              = ChunkBytes(chunks, c, c + 2)
                         /\ Len(chunks[c]) = 8
                         /\ chunks[c + 1] = value
                         /\ chunks[c + 2] = Zeros((-(8 + Len(value))) % 4)

ElementSizesWitness ==
    /\ pc = "wire"
    /\ tamper = NoTamper
    /\ Len(packet.fields) = 2
    /\ Len(packet.fields[1].params) = 0
    /\ Len(packet.fields[2].params) = 2
    /\ packet.fields[2].params[1].value.kind = "str"
    /\ SizeAt(buf, ChunkPos(chunks, FieldChunk(packet, 1)) + 4) = 3
    /\ SizeAt(buf, ChunkPos(chunks, FieldChunk(packet, 2)) + 4) * 4
         = ChunkBytes(chunks, FieldChunk(packet, 2), FieldChunk(packet, 2) + 6)

\* The identifier as the wire format describes it: 4 bytes, filled up with spaces.
SpacePadded(n) == [i \in 1..4 |-> IF i <= Len(n) THEN n[i] ELSE 32]

\* C4: every identifier encode_packet writes takes 4 bytes and is filled up on the
\* right with spaces (0x20) when it is shorter than 4 characters.
IdentifiersSpacePadded ==
    (pc # "encode" /\ tamper = NoTamper) =>
        /\ Len(packet.type) \in 1..4 => Slice(buf, 4, 8) = SpacePadded(packet.type)
        /\ \A i \in 1..Len(packet.fields) :
             LET at == ChunkPos(chunks, FieldChunk(packet, i))
                 name == packet.fields[i].name
             IN  Len(name) \in 1..4 => Slice(buf, at, at + 4) = SpacePadded(name)
        /\ \A i \in 1..Len(packet.fields) : \A j \in 1..Len(packet.fields[i].params) :
             LET at == ChunkPos(chunks, ParamChunk(packet, i, j))
                 name == packet.fields[i].params[j].name
             IN  Len(name) \in 1..4 => Slice(buf, at, at + 4) = SpacePadded(name)

\* C5: encode_packet fails, and produces no bytes, when an identifier is empty or
\* longer than 4 characters.
BadIdentifierRejected ==
    (\E n \in Identifiers(packet) : Len(n) = 0 \/ Len(n) > 4) => Len(buf) = 0

\* C6: when the 8 bytes 00 00 00 00 AA BB CC DD stand between two params of a field
\* (the field and packet sizes covering them), decode_packet of packets.py does not
\* fail, returns the field list it returns without them, and has issued one
\* DecodeWarning for each inserted occurrence.
AxisQuirkTolerated ==
    (impl = "packets" /\ tamper.kind = "quirk") =>
        /\ pc \notin {"DecodeError", "struct.error"}
        /\ pc = "done" => (result.fields = ref.fields /\ warnings = tamper.words)

AxisQuirkWitness ==
    /\ impl = "packets"
    /\ tamper.kind = "quirk"
    /\ tamper.words = 2
    /\ pc = "done"
    /\ warnings = 2
    /\ Len(result.fields[tamper.field].params) = 2
    /\ result.fields = ref.fields

\* The size the packet header declares, and whether both magics are where it puts them.
DeclaredSize(b) == _decode_uint(Slice(b, 8, 12)) * 4
MagicsOk(b) ==
    /\ Slice(b, 0, 4) = PACKET_HEADER
    /\ Slice(b, DeclaredSize(b) - 4, DeclaredSize(b)) = PACKET_FOOTER

\* C7: for a buffer of at least 40 bytes whose first 4 bytes are not DD CC BB AA, or
\* whose 4 bytes ending the packet at its declared size are not AA BB CC DD, decoding
\* ends in a DecodeError and returns no packet, also when the buffer is longer than
\* the declared size.
MagicsEnforced ==
    (pc \in Terminal /\ Len(buf) >= 40 /\ ~MagicsOk(buf)) => pc = "DecodeError"

\* The tampered size is that of the last field of the packet or of the last param of
\* its field, and was made larger: the element reaches beyond the one that holds it.
Overflows(t) ==
    /\ t.words > 0
    /\ \/ t.kind = "field_size" /\ t.field = Len(packet.fields)
       \/ t.kind = "param_size" /\ t.param = Len(packet.fields[t.field].params)

\* C8: with both magics valid and the buffer as long as declared, no packet is
\* returned when a field declares less than its own header (here 0), and a field or
\* param whose declared size overflows the element that holds it ends the decoding
\* in a DecodeError, in no other exception and in no packet.
SizesEnforced ==
    /\ (tamper.kind = "field_size" /\ tamper.words = 0) => pc # "done"
    /\ (Overflows(tamper) /\ pc \in Terminal) => pc = "DecodeError"

\* The value of the last param of ws whose name decodes to name.
RECURSIVE LastValue(_, _)
LastValue(ws, name) ==
    IF DecodeName(Pack4s(ws[Len(ws)].name)) = name THEN ws[Len(ws)].value
    ELSE LastValue(SubSeq(ws, 1, Len(ws) - 1), name)

\* C9: a decoded field holds one entry for each param name, also for a name that
\* occurs more than once on the wire, and its value is that of the last occurrence.
DuplicateParamsKeepLast ==
    (pc = "done" /\ tamper = NoTamper /\ impl = "packets") =>
        \A i \in 1..Len(result.fields) :
            LET ps == result.fields[i].params
                ws == packet.fields[i].params
            IN  /\ \A a, b \in 1..Len(ps) : ps[a].name = ps[b].name => a = b
                /\ \A a \in 1..Len(ps) : ps[a].value = LastValue(ws, ps[a].name)

\* C10: every pass of a decode loop moves the read position forward.
LoopsAdvance ==
    [][(pc = "params" /\ pc' = "params") =>
          IF impl = "packets" THEN offset' > offset
          ELSE param_read_position' > param_read_position]_vars

====
